---- MODULE Spec2Model ----
(***************************************************************************)
(* Model of perflogtool: src/src/pdh_helper.rs (the library: catalog walk, *)
(* time range, counter value reader, multi-string decoder, timestamp       *)
(* converter) and src/src/main.rs (the program that binds the log files,   *)
(* walks the catalog and closes the log).                                  *)
(*                                                                         *)
(* The PDH subsystem is the environment: every native call answers with a  *)
(* status and a payload drawn from small sets.  A panic!() ends the run in *)
(* the state "panicked"; nothing runs after it.                            *)
(*                                                                         *)
(* Strings are sequences of Unicode code points; wide-character buffers    *)
(* are sequences of 16-bit code units.  64-bit integers are sequences of   *)
(* four 16-bit limbs, least significant first, so that the arithmetic      *)
(* keeps its width.                                                        *)
(***************************************************************************)
EXTENDS Integers, Sequences, FiniteSets, TLC

VARIABLES
    \* ---- the native side, shared by every entry point ----
    hstate,           \* the data-source handle: "unbound" | "bound" | "closed"
    close_calls,      \* number of PdhCloseLog calls made on it
    calls,            \* the native calls made so far, in order
    output,           \* the lines printed so far, in order
    panic_msg,        \* the message of the panic!() that ended the run, or "none"
    overflow_checks,  \* build profile: TRUE = arithmetic overflow panics
    pinfo,            \* the PDH_TIME_INFO the bound source answers with
    \* ---- multi-string decoder (get_strings_from_pwstr) ----
    dpc,              \* "idle" | "start" | "encoded" | "decoded"
    dStrings,         \* the strings the producing API holds
    dBuf,             \* the wide-character buffer it filled
    dLen,             \* the buffer_size handed to the decoder
    dOut,             \* the decoder's result
    \* ---- time range (get_time_range called on its own) ----
    tpc,              \* "idle" | "start" | "returned" | "panicked"
    time_range,       \* the returned (start_time, end_time)
    \* ---- catalog walk (get_perflog_summary; main's loop uses the same locals) ----
    wpc,              \* "idle" | "enum_machines" | "enum_objects" | "enum_object_items"
                      \* | "push_machine" | "get_time_range" | "returned" | "panicked"
    machine_names,    \* result of enum_machines
    mi,               \* position of the machine loop in machine_names
    object_names,     \* result of enum_objects for the current machine
    oi,               \* position of the object loop in object_names
    objects,          \* ObjectSummary values collected for the current machine
    machines,         \* MachineSummary values collected so far
    summary,          \* the returned PerfLogSummary, or NoValue
    repMachines,      \* what the source reported: its machines,
    repObjects,       \*   per machine position its objects,
    repItemStatus,    \*   per machine and object position the first-phase item status
    \* ---- counter value reader (read_counter_values) ----
    rpc,              \* "idle" | "open_query" | "add_counter" | "collect" | "format"
                      \* | "returned" | "panicked"
    counters_to_read, \* the requested paths
    ci,               \* position of the registration loop in counters_to_read
    phquery,          \* "none" | "open"
    counter_handles,  \* HashMap path -> counter handle
    counter_data,     \* HashMap path -> samples
    advances,         \* number of successful PdhCollectQueryDataWithTime calls
    time,             \* timestamp of the current advance
    pending,          \* paths the for loop has not visited yet at this advance
    result,           \* the returned map, or NoValue
    \* ---- main ----
    mpc,              \* "idle" | "start" | "enum_machines" | "enum_objects"
                      \* | "enum_object_items" | "get_time_range" | "close_log"
                      \* | "returned" | "panicked"
    files,            \* the files the glob found
    \* ---- path derivation (PerfLogSummary::get_all_counters) ----
    gpc,              \* "idle" | "start" | "returned"
    self,             \* the summary the paths are derived from
    all_counters      \* the returned paths

nativeVars == <<hstate, close_calls, calls, output, panic_msg, overflow_checks, pinfo>>
decVars == <<dpc, dStrings, dBuf, dLen, dOut>>
timeVars == <<tpc, time_range>>
loopVars == <<machine_names, mi, object_names, oi>>
walkVars == <<wpc, objects, machines, summary, repMachines, repObjects, repItemStatus>>
readVars == <<rpc, counters_to_read, ci, phquery, counter_handles, counter_data,
              advances, time, pending, result>>
mainVars == <<mpc, files>>
pathVars == <<gpc, self, all_counters>>
vars == <<nativeVars, decVars, timeVars, loopVars, walkVars, readVars, mainVars, pathVars>>

\* ------------------------------------------------------------------------
\* Bounds of the model
\* ------------------------------------------------------------------------
MaxStrings == 2
MaxStrLen == 2
TickSpread == 2
MaxMachines == 2
MaxObjects == 2
MaxPaths == 2
MaxAdvances == 2
MaxFiles == 2

\* ------------------------------------------------------------------------
\* Sequences
\* ------------------------------------------------------------------------
RECURSIVE SeqsUpTo(_, _)
SeqsUpTo(S, n) ==
    IF n = 0 THEN {<<>>}
    ELSE LET shorter == SeqsUpTo(S, n - 1)
         IN  shorter \cup {Append(s, x) : s \in {t \in shorter : Len(t) = n - 1}, x \in S}

\* A plausible slip: the new element put in front.
push_front(v, x) == <<x>> \o v

\* Vec::push: appends the element at the end.
push(v, x) == Append(v, x)

\* Vec::pop: removes the last element; on an empty vector it does nothing.
Pop(v) == IF v = <<>> THEN <<>> ELSE SubSeq(v, 1, Len(v) - 1)

\* ------------------------------------------------------------------------
\* UTF-16
\* ------------------------------------------------------------------------
IsHighSurrogate(u) == u >= 55296 /\ u <= 56319
IsLowSurrogate(u) == u >= 56320 /\ u <= 57343

\* HSTRING::from(&String): each code point becomes one code unit, or a
\* surrogate pair above the basic plane.
RECURSIVE encode_utf16(_)
encode_utf16(s) ==
    IF s = <<>> THEN <<>>
    ELSE LET c == Head(s)
         IN  (IF c < 65536 THEN <<c>>
              ELSE <<55296 + ((c - 65536) \div 1024), 56320 + ((c - 65536) % 1024)>>)
             \o encode_utf16(Tail(s))

\* String::from_utf16 fails on an unpaired surrogate.
RECURSIVE ValidUtf16(_, _)
ValidUtf16(units, i) ==
    IF i > Len(units) THEN TRUE
    ELSE IF IsHighSurrogate(units[i])
         THEN i < Len(units) /\ IsLowSurrogate(units[i + 1]) /\ ValidUtf16(units, i + 2)
    ELSE IF IsLowSurrogate(units[i]) THEN FALSE
    ELSE ValidUtf16(units, i + 1)

RECURSIVE DecodeUtf16(_, _)
DecodeUtf16(units, i) ==
    IF i > Len(units) THEN <<>>
    ELSE IF IsHighSurrogate(units[i])
         THEN <<65536 + (units[i] - 55296) * 1024 + (units[i + 1] - 56320)>>
              \o DecodeUtf16(units, i + 2)
    ELSE <<units[i]>> \o DecodeUtf16(units, i + 1)

from_utf16(units) ==
    IF ValidUtf16(units, 1)
    THEN [ok |-> TRUE, val |-> DecodeUtf16(units, 1)]
    ELSE [ok |-> FALSE, val |-> <<>>]

\* str::split('\0'): the pieces between the null characters; always at
\* least one piece, and an empty piece after a trailing null.
RECURSIVE SplitNul(_, _)
SplitNul(s, cur) ==
    IF s = <<>> THEN <<cur>>
    ELSE IF Head(s) = 0 THEN <<cur>> \o SplitNul(Tail(s), <<>>)
    ELSE SplitNul(Tail(s), Append(cur, Head(s)))

\* ------------------------------------------------------------------------
\* Multi-string lists
\* ------------------------------------------------------------------------
\* The null-separated, double-null-terminated list: each string followed by
\* a null, then one more null (bind_input_logfiles builds its file list so,
\* and the enumeration calls fill their buffers so).
RECURSIVE JoinNul(_)
JoinNul(strings) ==
    IF strings = <<>> THEN <<>>
    ELSE Head(strings) \o <<0>> \o JoinNul(Tail(strings))

MultiSz(strings) == encode_utf16(JoinNul(strings) \o <<0>>)

\* What a function gives back: a value, or the panic!() that ended the run.
Fail(msg) == [panic |-> TRUE, val |-> <<>>, msg |-> msg]
Ok(v) == [panic |-> FALSE, val |-> v, msg |-> "none"]

\* A plausible slip: only one of the two trailing artifacts is removed.
get_strings_pop_once(object_list, buffer_size) ==
    LET slice == SubSeq(object_list, 1, buffer_size)
        current_string == from_utf16(slice)
    IN  IF ~current_string.ok THEN Fail("called Result::unwrap() on an Err value")
        ELSE Ok(Pop(SplitNul(current_string.val, <<>>)))

\* A plausible slip: the decoder insists on the double-null terminator.
get_strings_checked(object_list, buffer_size) ==
    LET slice == SubSeq(object_list, 1, buffer_size)
        current_string == from_utf16(slice)
    IN  IF ~current_string.ok THEN Fail("called Result::unwrap() on an Err value")
        ELSE IF buffer_size = 0 \/ slice[buffer_size] # 0 THEN Fail("missing terminator")
        ELSE Ok(Pop(Pop(SplitNul(current_string.val, <<>>))))

get_strings_from_pwstr(object_list, buffer_size) ==
    LET slice == SubSeq(object_list, 1, buffer_size)
        current_string == from_utf16(slice)
    IN  IF ~current_string.ok THEN Fail("called Result::unwrap() on an Err value")
        ELSE Ok(Pop(Pop(SplitNul(current_string.val, <<>>))))

\* ------------------------------------------------------------------------
\* 64-bit integers as four 16-bit limbs, least significant first
\* ------------------------------------------------------------------------
U64(l4, l3, l2, l1) == <<l1, l2, l3, l4>>

\* x + d for a small d >= 0, modulo 2^64.
AddSmall(x, d) ==
    LET s1 == x[1] + d
        s2 == x[2] + (s1 \div 65536)
        s3 == x[3] + (s2 \div 65536)
        s4 == x[4] + (s3 \div 65536)
    IN  <<s1 % 65536, s2 % 65536, s3 % 65536, s4 % 65536>>

\* x * k for a small k: the low 64 bits and whether the product left them.
MulSmall(x, k) ==
    LET p1 == x[1] * k
        p2 == x[2] * k + (p1 \div 65536)
        p3 == x[3] * k + (p2 \div 65536)
        p4 == x[4] * k + (p3 \div 65536)
    IN  [val |-> <<p1 % 65536, p2 % 65536, p3 % 65536, p4 % 65536>>,
         overflow |-> (p4 \div 65536) > 0]

LessU64(a, b) ==
    \/ a[4] < b[4]
    \/ a[4] = b[4] /\ a[3] < b[3]
    \/ a[4] = b[4] /\ a[3] = b[3] /\ a[2] < b[2]
    \/ a[4] = b[4] /\ a[3] = b[3] /\ a[2] = b[2] /\ a[1] < b[1]

\* An i64 is held as its 64-bit pattern: the sign is the top bit.
IsNonNegativeI64(x) == x[4] < 32768

\* i64 order on two non-negative values is the order of their bit patterns.
LessI64(a, b) ==
    IF IsNonNegativeI64(a) = IsNonNegativeI64(b) THEN LessU64(a, b)
    ELSE ~IsNonNegativeI64(a)

\* ------------------------------------------------------------------------
\* Timestamp converter
\* ------------------------------------------------------------------------
\* A PrimitiveDateTime is held as its distance from datetime!(1601-01-01
\* 00:00:00) in nanoseconds (a u64, as Duration::from_nanos takes it).
\* `filetime as u64` keeps the bit pattern; `* 100` is a u64 product, which
\* panics when the build checks overflow and wraps when it does not.

get_time_from_filetime(filetime, checks) ==
    LET nanos == MulSmall(filetime, 100)
    IN  IF nanos.overflow /\ checks THEN Fail("attempt to multiply with overflow")
        ELSE Ok(nanos.val)

\* PdhGetDataSourceTimeRangeH answered `status` and filled pinfo with `info`.
get_time_range(status, info, checks) ==
    IF status # "ERROR_SUCCESS" THEN Fail("Failed to get time range")
    ELSE LET start_time == get_time_from_filetime(info.StartTime, checks)
             end_time == get_time_from_filetime(info.EndTime, checks)
         IN  IF start_time.panic THEN start_time
             ELSE IF end_time.panic THEN end_time
             ELSE Ok(<<start_time.val, end_time.val>>)

\* ------------------------------------------------------------------------
\* Values shared by the entry points
\* ------------------------------------------------------------------------
NoValue == [none |-> TRUE]

Call(api, arg, status) == [api |-> api, arg |-> arg, status |-> status]

\* The tick counts the model draws a log's time range from: around zero, one
\* second, the largest count whose product with 100 fits 64 bits, the largest
\* i64, and the negative counts just below zero.
TickBases ==
    { U64(0, 0, 0, 0),
      U64(0, 0, 152, 38528),
      U64(655, 23592, 62914, 36699),
      U64(32767, 65535, 65535, 65535 - TickSpread),
      U64(65535, 65535, 65535, 65535 - TickSpread) }

TickSamples == {AddSmall(b, d) : b \in TickBases, d \in 0..TickSpread}

TimeInfos == [StartTime : TickSamples, EndTime : TickSamples]

OneSecondTicks == U64(0, 0, 152, 38528)
Epoch == U64(0, 0, 0, 0)
OneSecondAfterEpoch == U64(0, 0, 15258, 51712)

IdleNative ==
    /\ hstate = "unbound"
    /\ close_calls = 0
    /\ calls = <<>>
    /\ output = <<>>
    /\ panic_msg = "none"
    /\ overflow_checks = FALSE
    /\ pinfo = [StartTime |-> Epoch, EndTime |-> Epoch]

IdleDecoder ==
    /\ dpc = "idle"
    /\ dStrings = <<>>
    /\ dBuf = <<>>
    /\ dLen = 0
    /\ dOut = NoValue

IdleTime ==
    /\ tpc = "idle"
    /\ time_range = NoValue

IdleLoop ==
    /\ machine_names = <<>>
    /\ mi = 0
    /\ object_names = <<>>
    /\ oi = 0

IdleWalk ==
    /\ wpc = "idle"
    /\ objects = <<>>
    /\ machines = <<>>
    /\ summary = NoValue
    /\ repMachines = <<>>
    /\ repObjects = <<>>
    /\ repItemStatus = <<>>

IdleRead ==
    /\ rpc = "idle"
    /\ counters_to_read = <<>>
    /\ ci = 0
    /\ phquery = "none"
    /\ counter_handles = <<>>
    /\ counter_data = <<>>
    /\ advances = 0
    /\ time = Epoch
    /\ pending = {}
    /\ result = NoValue

IdleMain ==
    /\ mpc = "idle"
    /\ files = <<>>

IdlePaths ==
    /\ gpc = "idle"
    /\ self = NoValue
    /\ all_counters = <<>>

\* ------------------------------------------------------------------------
\* The multi-string decoder on its own
\* ------------------------------------------------------------------------
\* Characters of the strings: a basic-plane letter and a character above the
\* basic plane (two code units); never the null character.
DecoderChars == {97, 66304}

DecoderStrings == SeqsUpTo(DecoderChars, MaxStrLen)

InitDecoder ==
    /\ IdleNative /\ IdleTime /\ IdleLoop /\ IdleWalk /\ IdleRead /\ IdleMain /\ IdlePaths
    /\ dpc = "start"
    /\ dStrings \in SeqsUpTo(DecoderStrings, MaxStrings)
    /\ dBuf = <<>>
    /\ dLen = 0
    /\ dOut = NoValue

\* The producing API fills the buffer and reports its length.
D_Encode ==
    /\ dpc = "start"
    /\ dBuf' = MultiSz(dStrings)
    /\ dLen' = Len(MultiSz(dStrings))
    /\ dpc' = "encoded"
    /\ UNCHANGED <<dStrings, dOut>>
    /\ UNCHANGED <<nativeVars, timeVars, loopVars, walkVars, readVars, mainVars, pathVars>>

\* The decoder is called with the buffer and a length: the reported one, or
\* a shorter one.
D_Decode ==
    /\ dpc = "encoded"
    /\ \E n \in 0..Len(dBuf) :
        /\ dLen' = n
        /\ dOut' = get_strings_from_pwstr(dBuf, n)
    /\ dpc' = "decoded"
    /\ UNCHANGED <<dStrings, dBuf>>
    /\ UNCHANGED <<nativeVars, timeVars, loopVars, walkVars, readVars, mainVars, pathVars>>

NextDecoder == D_Encode \/ D_Decode

SpecDecoder == InitDecoder /\ [][NextDecoder]_vars

\* ------------------------------------------------------------------------
\* The time range on its own
\* ------------------------------------------------------------------------
InitTime ==
    /\ IdleDecoder /\ IdleLoop /\ IdleWalk /\ IdleRead /\ IdleMain /\ IdlePaths
    /\ hstate = "bound"
    /\ close_calls = 0
    /\ calls = <<>>
    /\ output = <<>>
    /\ panic_msg = "none"
    /\ overflow_checks \in BOOLEAN
    /\ pinfo = [StartTime |-> Epoch, EndTime |-> Epoch]
    /\ tpc = "start"
    /\ time_range = NoValue

\* A plausible slip: the time range is the last thing read from the log,
\* and the function closes the log when it has it, as main does.
T_GetTimeRange_closing ==
    /\ tpc = "start"
    /\ \E status \in {"ERROR_SUCCESS", "PDH_INVALID_HANDLE"}, info \in TimeInfos :
        LET r == get_time_range(status, info, overflow_checks)
        IN  /\ calls' = calls \o <<Call("PdhGetDataSourceTimeRangeH", "hdatasource", status),
                                   Call("PdhCloseLog", "hdatasource", "ERROR_SUCCESS")>>
            /\ pinfo' = info
            /\ tpc' = IF r.panic THEN "panicked" ELSE "returned"
            /\ panic_msg' = r.msg
            /\ time_range' = IF r.panic THEN time_range ELSE r.val
    /\ hstate' = "closed"
    /\ close_calls' = close_calls + 1
    /\ UNCHANGED <<output, overflow_checks>>
    /\ UNCHANGED <<decVars, loopVars, walkVars, readVars, mainVars, pathVars>>

T_GetTimeRange ==
    /\ tpc = "start"
    /\ \E status \in {"ERROR_SUCCESS", "PDH_INVALID_HANDLE"}, info \in TimeInfos :
        LET r == get_time_range(status, info, overflow_checks)
        IN  /\ calls' = Append(calls, Call("PdhGetDataSourceTimeRangeH", "hdatasource", status))
            /\ pinfo' = info
            /\ tpc' = IF r.panic THEN "panicked" ELSE "returned"
            /\ panic_msg' = r.msg
            /\ time_range' = IF r.panic THEN time_range ELSE r.val
    /\ UNCHANGED <<hstate, close_calls, output, overflow_checks>>
    /\ UNCHANGED <<decVars, loopVars, walkVars, readVars, mainVars, pathVars>>

NextTime == T_GetTimeRange

SpecTime == InitTime /\ [][NextTime]_vars

\* ------------------------------------------------------------------------
\* The two-phase enumeration calls
\* ------------------------------------------------------------------------
\* vec![0u16; n] filled by the native call with the list it holds.
FillBuffer(capacity, wire) ==
    [i \in 1..capacity |-> IF i <= Len(wire) THEN wire[i] ELSE 0]

\* A function's result together with the native calls it made.
Traced(r, cs) == [panic |-> r.panic, val |-> r.val, msg |-> r.msg, calls |-> cs]

\* The size call: null destinations with lengths `len` (zeros); the native
\* side answers st1 and writes the lengths it needs.  The fill call: buffers
\* of `len` code units; the native side answers st2 and writes the lengths
\* again.  One length for a name list, two for counters and instances.
SizeCall(api, key, len, reported, st1) ==
    Call(api, [for |-> key, dest |-> "null", len |-> len, reported |-> reported], st1)
FillCall(api, key, len, reported, st2) ==
    Call(api, [for |-> key, dest |-> "buffer", len |-> len, reported |-> reported], st2)

\* enum_machines when the size call answers st1 and the fill call st2, the
\* source holding `names`.
enum_machines(st1, st2, names) ==
    LET buffer_size == Len(MultiSz(names))
        real_machine_list == FillBuffer(buffer_size, MultiSz(names))
        size == SizeCall("PdhEnumMachinesHW", <<>>, <<0>>, <<buffer_size>>, st1)
        fill == FillCall("PdhEnumMachinesHW", <<>>, <<Len(real_machine_list)>>, <<buffer_size>>, st2)
    IN  IF st1 # "PDH_MORE_DATA"
        THEN Traced(Fail("Failed to get buffer size to enum machines"), <<size>>)
        ELSE IF st2 # "ERROR_SUCCESS"
        THEN Traced(Fail("Failed to enum machines"), <<size, fill>>)
        ELSE Traced(get_strings_from_pwstr(real_machine_list, buffer_size), <<size, fill>>)

\* A plausible slip: a size call that answers success is taken for a size.
enum_objects_accepts_success(machine, st1, st2, names) ==
    LET cb_buffer == Len(MultiSz(names))
        real_object_list == FillBuffer(cb_buffer, MultiSz(names))
        size == SizeCall("PdhEnumObjectsHW", <<machine>>, <<0>>, <<cb_buffer>>, st1)
        fill == FillCall("PdhEnumObjectsHW", <<machine>>, <<Len(real_object_list)>>, <<cb_buffer>>, st2)
    IN  IF st1 \notin {"PDH_MORE_DATA", "ERROR_SUCCESS"}
        THEN Traced(Fail("Failed to get buffer size to enum objects"), <<size>>)
        ELSE IF st2 # "ERROR_SUCCESS"
        THEN Traced(Fail("Failed to enum objects"), <<size, fill>>)
        ELSE Traced(get_strings_from_pwstr(real_object_list, cb_buffer), <<size, fill>>)

enum_objects(machine, st1, st2, names) ==
    LET cb_buffer == Len(MultiSz(names))
        real_object_list == FillBuffer(cb_buffer, MultiSz(names))
        size == SizeCall("PdhEnumObjectsHW", <<machine>>, <<0>>, <<cb_buffer>>, st1)
        fill == FillCall("PdhEnumObjectsHW", <<machine>>, <<Len(real_object_list)>>, <<cb_buffer>>, st2)
    IN  IF st1 # "PDH_MORE_DATA"
        THEN Traced(Fail("Failed to get buffer size to enum objects"), <<size>>)
        ELSE IF st2 # "ERROR_SUCCESS"
        THEN Traced(Fail("Failed to enum objects"), <<size, fill>>)
        ELSE Traced(get_strings_from_pwstr(real_object_list, cb_buffer), <<size, fill>>)

None == [panic |-> FALSE, val |-> [some |-> FALSE], msg |-> "none"]
Some(v) == Ok([some |-> TRUE, value |-> v])

\* A plausible slip: an object the source does not know is kept, with empty
\* lists.
enum_object_items_placeholder(machine, object, st1, st2, items) ==
    LET pcchcounterlistlength == Len(MultiSz(items.counters))
        pcchinstancelistlength == Len(MultiSz(items.instances))
        counterlist == FillBuffer(pcchcounterlistlength, MultiSz(items.counters))
        instancelist == FillBuffer(pcchinstancelistlength, MultiSz(items.instances))
        counter_names == get_strings_from_pwstr(counterlist, pcchcounterlistlength)
        instance_names == get_strings_from_pwstr(instancelist, pcchinstancelistlength)
        size == SizeCall("PdhEnumObjectItemsHW", <<machine, object>>, <<0, 0>>,
                         <<pcchcounterlistlength, pcchinstancelistlength>>, st1)
        fill == FillCall("PdhEnumObjectItemsHW", <<machine, object>>,
                         <<Len(counterlist), Len(instancelist)>>,
                         <<pcchcounterlistlength, pcchinstancelistlength>>, st2)
    IN  IF st1 = "PDH_CSTATUS_NO_OBJECT" THEN Traced(Some(<<<<>>, <<>>>>), <<size>>)
        ELSE IF st1 # "PDH_MORE_DATA"
        THEN Traced(Fail("Failed to get buffer size to enum counters"), <<size>>)
        ELSE IF st2 # "ERROR_SUCCESS"
        THEN Traced(Fail("Failed to enum counters"), <<size, fill>>)
        ELSE IF counter_names.panic THEN Traced(counter_names, <<size, fill>>)
        ELSE IF instance_names.panic THEN Traced(instance_names, <<size, fill>>)
        ELSE Traced(Some(<<counter_names.val, instance_names.val>>), <<size, fill>>)

enum_object_items(machine, object, st1, st2, items) ==
    LET pcchcounterlistlength == Len(MultiSz(items.counters))
        pcchinstancelistlength == Len(MultiSz(items.instances))
        counterlist == FillBuffer(pcchcounterlistlength, MultiSz(items.counters))
        instancelist == FillBuffer(pcchinstancelistlength, MultiSz(items.instances))
        counter_names == get_strings_from_pwstr(counterlist, pcchcounterlistlength)
        instance_names == get_strings_from_pwstr(instancelist, pcchinstancelistlength)
        size == SizeCall("PdhEnumObjectItemsHW", <<machine, object>>, <<0, 0>>,
                         <<pcchcounterlistlength, pcchinstancelistlength>>, st1)
        fill == FillCall("PdhEnumObjectItemsHW", <<machine, object>>,
                         <<Len(counterlist), Len(instancelist)>>,
                         <<pcchcounterlistlength, pcchinstancelistlength>>, st2)
    IN  IF st1 = "PDH_CSTATUS_NO_OBJECT" THEN Traced(None, <<size>>)
        ELSE IF st1 # "PDH_MORE_DATA"
        THEN Traced(Fail("Failed to get buffer size to enum counters"), <<size>>)
        ELSE IF st2 # "ERROR_SUCCESS"
        THEN Traced(Fail("Failed to enum counters"), <<size, fill>>)
        ELSE IF counter_names.panic THEN Traced(counter_names, <<size, fill>>)
        ELSE IF instance_names.panic THEN Traced(instance_names, <<size, fill>>)
        ELSE Traced(Some(<<counter_names.val, instance_names.val>>), <<size, fill>>)

\* ------------------------------------------------------------------------
\* What the bound source may hold
\* ------------------------------------------------------------------------
\* "M1", "M2", ... and "O1", "O2", ...
MachineList(n) == [i \in 1..n |-> <<77, 48 + i>>]
ObjectList(n) == [i \in 1..n |-> <<79, 48 + i>>]

\* The counter and instance lists the source holds for the object at
\* position o of the machine at position m: they differ from pair to pair;
\* every second object has a second counter, named above the basic plane,
\* and every second pair is a singleton object without instances.
ItemsOf(m, o) ==
    [counters |-> << <<99, 48 + m, 48 + o>> >>
                  \o (IF o % 2 = 0 THEN << <<66304, 48 + m>> >> ELSE <<>>),
     instances |-> IF (m + o) % 2 = 0 THEN <<>> ELSE << <<105, 48 + o>> >>]

SizeStatuses == {"PDH_MORE_DATA", "ERROR_SUCCESS", "PDH_INVALID_HANDLE"}
ItemSizeStatuses == SizeStatuses \cup {"PDH_CSTATUS_NO_OBJECT"}
FillStatuses == {"ERROR_SUCCESS", "PDH_INVALID_HANDLE"}

\* Time ranges the walk and main draw from: a plain one, and one whose end
\* does not fit the 64-bit product.
WalkTimeInfos ==
    { [StartTime |-> Epoch, EndTime |-> OneSecondTicks],
      [StartTime |-> Epoch, EndTime |-> U64(655, 23592, 62914, 36701)] }

\* ------------------------------------------------------------------------
\* get_perflog_summary
\* ------------------------------------------------------------------------
InitWalk ==
    /\ IdleDecoder /\ IdleTime /\ IdleRead /\ IdleMain /\ IdlePaths
    /\ hstate = "bound"
    /\ close_calls = 0
    /\ calls = <<>>
    /\ output = <<>>
    /\ panic_msg = "none"
    /\ overflow_checks \in BOOLEAN
    /\ pinfo = [StartTime |-> Epoch, EndTime |-> Epoch]
    /\ IdleLoop
    /\ wpc = "enum_machines"
    /\ objects = <<>>
    /\ machines = <<>>
    /\ summary = NoValue
    /\ repMachines = <<>>
    /\ repObjects = <<>>
    /\ repItemStatus = <<>>

\* The for loops' heads: the next element, or what follows the loop.
MachineLoop(names, i) == IF i > Len(names) THEN "get_time_range" ELSE "enum_objects"
ObjectLoop(names, i) == IF i > Len(names) THEN "push_machine" ELSE "enum_object_items"

W_EnumMachines ==
    /\ wpc = "enum_machines"
    /\ \E st1 \in SizeStatuses, st2 \in FillStatuses, n \in 0..MaxMachines :
        LET names == MachineList(n)
            r == enum_machines(st1, st2, names)
        IN  /\ calls' = calls \o r.calls
            /\ panic_msg' = r.msg
            /\ IF r.panic
               THEN /\ wpc' = "panicked"
                    /\ UNCHANGED <<machine_names, mi, repMachines>>
               ELSE /\ machine_names' = r.val
                    /\ mi' = 1
                    /\ repMachines' = names
                    /\ wpc' = MachineLoop(r.val, 1)
    /\ UNCHANGED <<object_names, oi, objects, machines, summary, repObjects, repItemStatus>>
    /\ UNCHANGED <<hstate, close_calls, output, overflow_checks, pinfo>>
    /\ UNCHANGED <<decVars, timeVars, readVars, mainVars, pathVars>>

W_EnumObjects ==
    /\ wpc = "enum_objects"
    /\ \E st1 \in SizeStatuses, st2 \in FillStatuses, n \in 0..MaxObjects :
        LET names == ObjectList(n)
            r == enum_objects(machine_names[mi], st1, st2, names)
        IN  /\ calls' = calls \o r.calls
            /\ panic_msg' = r.msg
            /\ IF r.panic
               THEN /\ wpc' = "panicked"
                    /\ UNCHANGED <<object_names, oi, objects, repObjects, repItemStatus>>
               ELSE /\ object_names' = r.val
                    /\ oi' = 1
                    /\ objects' = <<>>
                    /\ repObjects' = Append(repObjects, names)
                    /\ repItemStatus' = Append(repItemStatus, <<>>)
                    /\ wpc' = ObjectLoop(r.val, 1)
    /\ UNCHANGED <<machine_names, mi, machines, summary, repMachines>>
    /\ UNCHANGED <<hstate, close_calls, output, overflow_checks, pinfo>>
    /\ UNCHANGED <<decVars, timeVars, readVars, mainVars, pathVars>>

W_EnumObjectItems ==
    /\ wpc = "enum_object_items"
    /\ \E st1 \in ItemSizeStatuses, st2 \in FillStatuses :
        LET items == ItemsOf(mi, oi)
            r == enum_object_items(machine_names[mi], object_names[oi], st1, st2, items)
        IN  /\ calls' = calls \o r.calls
            /\ panic_msg' = r.msg
            /\ repItemStatus' = [repItemStatus EXCEPT ![mi] = Append(@, st1)]
            /\ IF r.panic
               THEN /\ wpc' = "panicked"
                    /\ UNCHANGED <<oi, objects>>
               ELSE /\ objects' = IF r.val.some
                                  THEN push(objects, [name |-> object_names[oi],
                                                      counters |-> r.val.value[1],
                                                      instances |-> r.val.value[2]])
                                  ELSE objects
                    /\ oi' = oi + 1
                    /\ wpc' = ObjectLoop(object_names, oi + 1)
    /\ UNCHANGED <<machine_names, mi, object_names, machines, summary, repMachines, repObjects>>
    /\ UNCHANGED <<hstate, close_calls, output, overflow_checks, pinfo>>
    /\ UNCHANGED <<decVars, timeVars, readVars, mainVars, pathVars>>

W_PushMachine ==
    /\ wpc = "push_machine"
    /\ machines' = push(machines, [name |-> machine_names[mi], objects |-> objects])
    /\ mi' = mi + 1
    /\ wpc' = MachineLoop(machine_names, mi + 1)
    /\ UNCHANGED <<machine_names, object_names, oi, objects, summary,
                   repMachines, repObjects, repItemStatus>>
    /\ UNCHANGED nativeVars
    /\ UNCHANGED <<decVars, timeVars, readVars, mainVars, pathVars>>

W_GetTimeRange ==
    /\ wpc = "get_time_range"
    /\ \E status \in FillStatuses, info \in WalkTimeInfos :
        LET r == get_time_range(status, info, overflow_checks)
        IN  /\ calls' = Append(calls, Call("PdhGetDataSourceTimeRangeH", "hdatasource", status))
            /\ pinfo' = info
            /\ panic_msg' = r.msg
            /\ wpc' = IF r.panic THEN "panicked" ELSE "returned"
            /\ summary' = IF r.panic THEN summary
                          ELSE [machines |-> machines,
                                start_time |-> r.val[1],
                                end_time |-> r.val[2]]
    /\ UNCHANGED <<machine_names, mi, object_names, oi, objects, machines,
                   repMachines, repObjects, repItemStatus>>
    /\ UNCHANGED <<hstate, close_calls, output, overflow_checks>>
    /\ UNCHANGED <<decVars, timeVars, readVars, mainVars, pathVars>>

NextWalk ==
    W_EnumMachines \/ W_EnumObjects \/ W_EnumObjectItems \/ W_PushMachine \/ W_GetTimeRange

SpecWalk == InitWalk /\ [][NextWalk]_vars

\* ------------------------------------------------------------------------
\* main
\* ------------------------------------------------------------------------
\* "f1", "f2", ...
FileList(n) == [i \in 1..n |-> <<102, 48 + i>>]

\* bind_input_logfiles: the file list is handed over null-separated and
\* double-null-terminated; a failing bind panics.
bind_input_logfiles(fs, status) ==
    LET file == MultiSz(fs)
    IN  IF status # "ERROR_SUCCESS" THEN Fail("Failed to bind to log files")
        ELSE Ok(file)

InitMain ==
    /\ IdleDecoder /\ IdleTime /\ IdleLoop /\ IdleWalk /\ IdleRead /\ IdlePaths
    /\ hstate = "unbound"
    /\ close_calls = 0
    /\ calls = <<>>
    /\ output = <<>>
    /\ panic_msg = "none"
    /\ overflow_checks \in BOOLEAN
    /\ pinfo = [StartTime |-> Epoch, EndTime |-> Epoch]
    /\ mpc = "start"
    /\ files \in {FileList(n) : n \in 0..MaxFiles}

\* Where main's nested loops go next: the next object of this machine, else
\* the next machine, else the time range.
MainMachineLoop(names, i) == IF i > Len(names) THEN "get_time_range" ELSE "enum_objects"

\* With no file found main returns before anything is bound.
M_Start ==
    /\ mpc = "start"
    /\ mpc' = IF Len(files) = 0 THEN "returned" ELSE "bind"
    /\ UNCHANGED files
    /\ UNCHANGED nativeVars
    /\ UNCHANGED <<decVars, timeVars, loopVars, walkVars, readVars, pathVars>>

M_Bind ==
    /\ mpc = "bind"
    /\ \E status \in FillStatuses :
        LET r == bind_input_logfiles(files, status)
        IN  /\ calls' = Append(calls, Call("PdhBindInputDataSourceW", r.val, status))
            /\ panic_msg' = r.msg
            /\ hstate' = IF r.panic THEN hstate ELSE "bound"
            /\ mpc' = IF r.panic THEN "panicked" ELSE "enum_machines"
    /\ UNCHANGED files
    /\ UNCHANGED <<close_calls, output, overflow_checks, pinfo>>
    /\ UNCHANGED <<decVars, timeVars, loopVars, walkVars, readVars, pathVars>>

M_EnumMachines ==
    /\ mpc = "enum_machines"
    /\ \E st1 \in SizeStatuses, st2 \in FillStatuses, n \in 0..MaxMachines :
        LET names == MachineList(n)
            r == enum_machines(st1, st2, names)
        IN  /\ calls' = calls \o r.calls
            /\ panic_msg' = r.msg
            /\ IF r.panic
               THEN /\ mpc' = "panicked"
                    /\ UNCHANGED <<machine_names, mi>>
               ELSE /\ machine_names' = r.val
                    /\ mi' = 1
                    /\ mpc' = MainMachineLoop(r.val, 1)
    /\ UNCHANGED <<object_names, oi, files>>
    /\ UNCHANGED <<hstate, close_calls, output, overflow_checks, pinfo>>
    /\ UNCHANGED <<decVars, timeVars, walkVars, readVars, pathVars>>

M_EnumObjects ==
    /\ mpc = "enum_objects"
    /\ \E st1 \in SizeStatuses, st2 \in FillStatuses, n \in 0..MaxObjects :
        LET names == ObjectList(n)
            r == enum_objects(machine_names[mi], st1, st2, names)
        IN  /\ calls' = calls \o r.calls
            /\ panic_msg' = r.msg
            /\ IF r.panic
               THEN /\ mpc' = "panicked"
                    /\ UNCHANGED <<object_names, oi, mi>>
               ELSE /\ object_names' = r.val
                    /\ oi' = 1
                    /\ IF r.val = <<>>
                       THEN /\ mi' = mi + 1
                            /\ mpc' = MainMachineLoop(machine_names, mi + 1)
                       ELSE /\ mi' = mi
                            /\ mpc' = "enum_object_items"
    /\ UNCHANGED <<machine_names, files>>
    /\ UNCHANGED <<hstate, close_calls, output, overflow_checks, pinfo>>
    /\ UNCHANGED <<decVars, timeVars, walkVars, readVars, pathVars>>

M_EnumObjectItems ==
    /\ mpc = "enum_object_items"
    /\ \E st1 \in ItemSizeStatuses, st2 \in FillStatuses :
        LET items == ItemsOf(mi, oi)
            r == enum_object_items(machine_names[mi], object_names[oi], st1, st2, items)
        IN  /\ calls' = calls \o r.calls
            /\ panic_msg' = r.msg
            /\ IF r.panic
               THEN /\ mpc' = "panicked"
                    /\ UNCHANGED <<oi, mi>>
               ELSE /\ oi' = oi + 1
                    /\ IF oi + 1 > Len(object_names)
                       THEN /\ mi' = mi + 1
                            /\ mpc' = MainMachineLoop(machine_names, mi + 1)
                       ELSE /\ mi' = mi
                            /\ mpc' = "enum_object_items"
    /\ UNCHANGED <<machine_names, object_names, files>>
    /\ UNCHANGED <<hstate, close_calls, output, overflow_checks, pinfo>>
    /\ UNCHANGED <<decVars, timeVars, walkVars, readVars, pathVars>>

M_GetTimeRange ==
    /\ mpc = "get_time_range"
    /\ \E status \in FillStatuses, info \in WalkTimeInfos :
        LET r == get_time_range(status, info, overflow_checks)
        IN  /\ calls' = Append(calls, Call("PdhGetDataSourceTimeRangeH", "hdatasource", status))
            /\ pinfo' = info
            /\ panic_msg' = r.msg
            /\ mpc' = IF r.panic THEN "panicked" ELSE "close_log"
    /\ UNCHANGED files
    /\ UNCHANGED <<hstate, close_calls, output, overflow_checks>>
    /\ UNCHANGED <<decVars, timeVars, loopVars, walkVars, readVars, pathVars>>

\* unsafe { PdhCloseLog(hdatasource, 0) }: the status is not looked at.
M_CloseLog ==
    /\ mpc = "close_log"
    /\ \E status \in FillStatuses :
        calls' = Append(calls, Call("PdhCloseLog", "hdatasource", status))
    /\ hstate' = "closed"
    /\ close_calls' = close_calls + 1
    /\ mpc' = "returned"
    /\ UNCHANGED files
    /\ UNCHANGED <<output, panic_msg, overflow_checks, pinfo>>
    /\ UNCHANGED <<decVars, timeVars, loopVars, walkVars, readVars, pathVars>>

NextMain ==
    \/ M_Start \/ M_Bind \/ M_EnumMachines \/ M_EnumObjects \/ M_EnumObjectItems
    \/ M_GetTimeRange \/ M_CloseLog

SpecMain == InitMain /\ [][NextMain]_vars

\* ------------------------------------------------------------------------
\* read_counter_values
\* ------------------------------------------------------------------------
\* A plausible slip: a key already present keeps its value (as
\* entry().or_insert() does).
insert_if_absent(map, key, value) ==
    [k \in DOMAIN map \cup {key} |-> IF k \in DOMAIN map THEN map[k] ELSE value]

\* HashMap::insert: a new key is added, an existing key gets the new value.
Insert(map, key, value) ==
    [k \in DOMAIN map \cup {key} |-> IF k = key THEN value ELSE map[k]]

\* A plausible slip: the sample stored as the 32-bit variant.
Long(t, v) == [variant |-> "Long", time |-> t, value |-> v]

\* CounterValueWithTime::Large(time, value)
Large(t, v) == [variant |-> "Large", time |-> t, value |-> v]

\* A plausible slip: a path that cannot be registered is left out and the
\* registration goes on.
add_counter_outcome_skip(pdhstatus) ==
    IF pdhstatus # "ERROR_SUCCESS" THEN "skip" ELSE "insert"

\* What the registration loop does with PdhAddCounterW's status.
add_counter_outcome(pdhstatus) ==
    IF pdhstatus # "ERROR_SUCCESS" THEN "panic" ELSE "insert"

\* A plausible slip: only the end of the log ends the loop, anything else is
\* fatal.
collect_outcome_strict(pdhstatus) ==
    IF pdhstatus = "ERROR_SUCCESS" THEN "advance"
    ELSE IF pdhstatus = "PDH_NO_MORE_DATA" THEN "break"
    ELSE "panic"

\* A plausible slip: the status of the advance is not looked at.
collect_outcome_unchecked(pdhstatus) == "advance"

\* What the loop does with PdhCollectQueryDataWithTime's status.
collect_outcome(pdhstatus) ==
    IF pdhstatus # "ERROR_SUCCESS" THEN "break" ELSE "advance"

\* Plausible slips: every failing status is fatal; every failing status is
\* a gap; the per-value status is not looked at.
format_outcome_strict(pdhstatus, CStatus) ==
    IF pdhstatus # "ERROR_SUCCESS" THEN "panic"
    ELSE IF CStatus = "PDH_CSTATUS_VALID_DATA" THEN "sample"
    ELSE "unexpected_cstatus"

format_outcome_lenient(pdhstatus, CStatus) ==
    IF pdhstatus # "ERROR_SUCCESS" THEN "invalid_data"
    ELSE IF CStatus = "PDH_CSTATUS_VALID_DATA" THEN "sample"
    ELSE "unexpected_cstatus"

format_outcome_unchecked(pdhstatus, CStatus) ==
    IF pdhstatus = "PDH_INVALID_DATA" THEN "invalid_data"
    ELSE IF pdhstatus = "ERROR_SUCCESS" THEN "sample"
    ELSE "panic"

\* The match on PdhGetFormattedCounterValue's status and the value's CStatus.
format_outcome(pdhstatus, CStatus) ==
    IF pdhstatus = "PDH_INVALID_DATA" THEN "invalid_data"
    ELSE IF pdhstatus = "ERROR_SUCCESS"
         THEN IF CStatus = "PDH_CSTATUS_VALID_DATA" THEN "sample"
              ELSE "unexpected_cstatus"
    ELSE "panic"

\* The paths a caller may ask for, the values a counter may have, and the
\* timestamp of the log's k-th sample (k seconds after the epoch).
Paths == {"\\\\M1\\O1(i)\\c", "\\\\M1\\O1(i)\\d"}
LargeValues == {7}
LogTick(k) == MulSmall(OneSecondTicks, k).val

FormatAnswers ==
    {[status |-> "ERROR_SUCCESS", CStatus |-> "PDH_CSTATUS_VALID_DATA", largeValue |-> v] :
        v \in LargeValues}
    \cup {[status |-> "ERROR_SUCCESS", CStatus |-> "PDH_CSTATUS_INVALID_DATA", largeValue |-> 0],
          [status |-> "PDH_INVALID_DATA", CStatus |-> "unset", largeValue |-> 0],
          [status |-> "PDH_INVALID_HANDLE", CStatus |-> "unset", largeValue |-> 0]}

CollectStatuses == {"ERROR_SUCCESS", "PDH_NO_MORE_DATA", "PDH_INVALID_HANDLE"}

InitRead ==
    /\ IdleDecoder /\ IdleTime /\ IdleLoop /\ IdleWalk /\ IdleMain /\ IdlePaths
    /\ hstate = "bound"
    /\ close_calls = 0
    /\ calls = <<>>
    /\ output = <<>>
    /\ panic_msg = "none"
    /\ overflow_checks \in BOOLEAN
    /\ pinfo = [StartTime |-> Epoch, EndTime |-> Epoch]
    /\ rpc = "open_query"
    /\ counters_to_read \in SeqsUpTo(Paths, MaxPaths)
    /\ ci = 0
    /\ phquery = "none"
    /\ counter_handles = <<>>
    /\ counter_data = <<>>
    /\ advances = 0
    /\ time = Epoch
    /\ pending = {}
    /\ result = NoValue

RegistrationLoop(paths, i) == IF i > Len(paths) THEN "collect" ELSE "add_counter"

R_OpenQuery ==
    /\ rpc = "open_query"
    /\ \E pdhstatus \in FillStatuses :
        /\ calls' = Append(calls, Call("PdhOpenQueryH", "hdatasource", pdhstatus))
        /\ IF pdhstatus # "ERROR_SUCCESS"
           THEN /\ rpc' = "panicked"
                /\ panic_msg' = "Failed to open query"
                /\ UNCHANGED <<phquery, ci>>
           ELSE /\ phquery' = "open"
                /\ ci' = 1
                /\ rpc' = RegistrationLoop(counters_to_read, 1)
                /\ UNCHANGED panic_msg
    /\ UNCHANGED <<counters_to_read, counter_handles, counter_data, advances, time,
                   pending, result>>
    /\ UNCHANGED <<hstate, close_calls, output, overflow_checks, pinfo>>
    /\ UNCHANGED <<decVars, timeVars, loopVars, walkVars, mainVars, pathVars>>

\* One pass of the registration loop; the handle PdhAddCounterW gives out
\* is a new one each time (here: the position of the registration), and
\* phcounter keeps its default when the call fails.
R_AddCounter ==
    /\ rpc = "add_counter"
    /\ \E pdhstatus \in FillStatuses :
        LET counter == counters_to_read[ci]
            phcounter == IF pdhstatus = "ERROR_SUCCESS" THEN ci ELSE 0
            outcome == add_counter_outcome(pdhstatus)
        IN  /\ calls' = Append(calls, Call("PdhAddCounterW",
                                           [counter |-> counter, handle |-> phcounter],
                                           pdhstatus))
            /\ IF outcome = "panic"
               THEN /\ rpc' = "panicked"
                    /\ panic_msg' = "Failed to add counter"
                    /\ UNCHANGED <<counter_handles, counter_data, ci>>
               ELSE /\ counter_handles' = IF outcome = "insert"
                                          THEN Insert(counter_handles, counter, phcounter)
                                          ELSE counter_handles
                    /\ counter_data' = IF outcome = "insert"
                                       THEN Insert(counter_data, counter, <<>>)
                                       ELSE counter_data
                    /\ ci' = ci + 1
                    /\ rpc' = RegistrationLoop(counters_to_read, ci + 1)
                    /\ UNCHANGED panic_msg
    /\ UNCHANGED <<counters_to_read, phquery, advances, time, pending, result>>
    /\ UNCHANGED <<hstate, close_calls, output, overflow_checks, pinfo>>
    /\ UNCHANGED <<decVars, timeVars, loopVars, walkVars, mainVars, pathVars>>

\* The head of the loop: advance the log; a failing advance leaves the loop
\* and the function returns counter_data.
R_Collect ==
    /\ rpc = "collect"
    /\ \E pdhstatus \in CollectStatuses :
        LET outcome == collect_outcome(pdhstatus)
            filetime == LogTick(advances + 1)
            t == get_time_from_filetime(filetime, overflow_checks)
        IN  /\ pdhstatus = "ERROR_SUCCESS" => advances < MaxAdvances
            /\ calls' = Append(calls, Call("PdhCollectQueryDataWithTime", "phquery", pdhstatus))
            /\ CASE outcome = "break" ->
                      /\ result' = counter_data
                      /\ rpc' = "returned"
                      /\ UNCHANGED <<advances, time, pending, panic_msg>>
                 [] outcome = "panic" ->
                      /\ rpc' = "panicked"
                      /\ panic_msg' = "Failed to collect query data"
                      /\ UNCHANGED <<advances, time, pending, result>>
                 [] outcome = "advance" /\ t.panic ->
                      /\ rpc' = "panicked"
                      /\ panic_msg' = t.msg
                      /\ UNCHANGED <<advances, time, pending, result>>
                 [] OTHER ->
                      /\ advances' = advances + 1
                      /\ time' = t.val
                      /\ pending' = DOMAIN counter_handles
                      /\ rpc' = IF DOMAIN counter_handles = {} THEN "collect" ELSE "format"
                      /\ UNCHANGED <<result, panic_msg>>
    /\ UNCHANGED <<counters_to_read, ci, phquery, counter_handles, counter_data>>
    /\ UNCHANGED <<hstate, close_calls, output, overflow_checks, pinfo>>
    /\ UNCHANGED <<decVars, timeVars, loopVars, walkVars, mainVars, pathVars>>

\* One pass of the for loop over counter_handles, whose order is whatever
\* the HashMap gives: any counter not yet visited at this advance.
R_Format ==
    /\ rpc = "format"
    /\ \E counter_name \in pending, pvalue \in FormatAnswers :
        LET h_counter == counter_handles[counter_name]
            outcome == format_outcome(pvalue.status, pvalue.CStatus)
            rest == pending \ {counter_name}
        IN  /\ calls' = Append(calls,
                               Call("PdhGetFormattedCounterValue",
                                    [counter |-> counter_name, handle |-> h_counter,
                                     CStatus |-> pvalue.CStatus],
                                    pvalue.status))
            /\ IF outcome = "panic"
               THEN /\ rpc' = "panicked"
                    /\ panic_msg' = "Failed to get counter value"
                    /\ UNCHANGED <<counter_data, output, pending>>
               ELSE /\ counter_data' =
                        IF outcome = "sample"
                        THEN [counter_data EXCEPT
                                ![counter_name] = Append(@, Large(time, pvalue.largeValue))]
                        ELSE counter_data
                    /\ output' =
                        IF outcome = "invalid_data"
                        THEN Append(output, [time |-> time, counter |-> counter_name,
                                             text |-> "Invalid data"])
                        ELSE IF outcome = "unexpected_cstatus"
                        THEN Append(output, [time |-> time, counter |-> counter_name,
                                             text |-> "Unexpected CStatus"])
                        ELSE output
                    /\ pending' = rest
                    /\ rpc' = IF rest = {} THEN "collect" ELSE "format"
                    /\ UNCHANGED panic_msg
    /\ UNCHANGED <<counters_to_read, ci, phquery, counter_handles, advances, time, result>>
    /\ UNCHANGED <<hstate, close_calls, overflow_checks, pinfo>>
    /\ UNCHANGED <<decVars, timeVars, loopVars, walkVars, mainVars, pathVars>>

NextRead == R_OpenQuery \/ R_AddCounter \/ R_Collect \/ R_Format

SpecRead == InitRead /\ [][NextRead]_vars

\* read_counter_values runs on one thread and every native call returns:
\* a step that can be taken is taken.
SpecReadFair == InitRead /\ [][NextRead]_vars /\ WF_vars(NextRead)

\* ------------------------------------------------------------------------
\* PerfLogSummary::get_all_counters
\* ------------------------------------------------------------------------
RECURSIVE Flatten(_)
Flatten(seqs) == IF seqs = <<>> THEN <<>> ELSE Head(seqs) \o Flatten(Tail(seqs))

\* format!("{}\\{}({})\\{}", machine.name, object.name, instance, counter):
\* 92 is the backslash, 40 and 41 the parentheses.
format_path(machine, object, instance, counter) ==
    machine \o <<92>> \o object \o <<40>> \o instance \o <<41, 92>> \o counter

\* A plausible slip: the two inner loops exchanged.
get_all_counters_counter_major(s) ==
    Flatten([m \in DOMAIN s.machines |->
      Flatten([o \in DOMAIN s.machines[m].objects |->
        LET machine == s.machines[m]
            object == machine.objects[o]
        IN  Flatten([c \in DOMAIN object.counters |->
              [i \in DOMAIN object.instances |->
                  format_path(machine.name, object.name,
                              object.instances[i], object.counters[c])]])])])

\* The four nested loops, each push appending to all_counters.
get_all_counters(s) ==
    Flatten([m \in DOMAIN s.machines |->
      Flatten([o \in DOMAIN s.machines[m].objects |->
        LET machine == s.machines[m]
            object == machine.objects[o]
        IN  Flatten([i \in DOMAIN object.instances |->
              [c \in DOMAIN object.counters |->
                  format_path(machine.name, object.name,
                              object.instances[i], object.counters[c])]])])])

\* The item lists an object of a summary may carry: a singleton object
\* without instances, an object with two instances and two counters, and an
\* object with instances but no counter.
ItemShapes ==
    { [counters |-> << <<99, 49>>, <<99, 50>> >>, instances |-> <<>>],
      [counters |-> << <<99, 49>>, <<99, 50>> >>, instances |-> << <<105, 49>>, <<105, 50>> >>],
      [counters |-> <<>>, instances |-> << <<105, 49>> >>] }

ObjectSummaries(n) ==
    { [o \in 1..n |-> [name |-> ObjectList(n)[o],
                       counters |-> shape[o].counters,
                       instances |-> shape[o].instances]] : shape \in [1..n -> ItemShapes] }

ObjectLists == UNION {ObjectSummaries(k) : k \in 0..MaxObjects}

InitPaths ==
    /\ IdleNative /\ IdleDecoder /\ IdleTime /\ IdleLoop /\ IdleWalk /\ IdleRead /\ IdleMain
    /\ gpc = "start"
    /\ \E n \in 0..MaxMachines : \E objs \in [1..n -> ObjectLists] :
          self = [machines |-> [m \in 1..n |-> [name |-> MachineList(n)[m],
                                                objects |-> objs[m]]],
                  start_time |-> Epoch,
                  end_time |-> OneSecondTicks]
    /\ all_counters = <<>>

G_GetAllCounters ==
    /\ gpc = "start"
    /\ all_counters' = get_all_counters(self)
    /\ gpc' = "returned"
    /\ UNCHANGED self
    /\ UNCHANGED <<nativeVars, decVars, timeVars, loopVars, walkVars, readVars, mainVars>>

NextPaths == G_GetAllCounters

SpecPaths == InitPaths /\ [][NextPaths]_vars

\* ------------------------------------------------------------------------
\* The functions that borrow the data source handle, each called on its own
\* by a caller that holds a bound handle
\* ------------------------------------------------------------------------
InitBorrow == InitWalk \/ InitRead \/ InitTime

NextBorrow == NextWalk \/ NextRead \/ NextTime

SpecBorrow == InitBorrow /\ [][NextBorrow]_vars

\* ------------------------------------------------------------------------
\* Claims about the multi-string decoder
\* ------------------------------------------------------------------------
IsPrefix(s, t) == Len(s) <= Len(t) /\ s = SubSeq(t, 1, Len(s))

\* C6: decoding the buffer that holds each of N >= 0 null-free strings
\* followed by a null, plus one terminating null, with exactly the reported
\* length, returns exactly those N strings in their order.
C6_RoundTrip ==
    (dpc = "decoded" /\ dLen = Len(dBuf)) => dOut = Ok(dStrings)

C6_Witness ==
    /\ dpc = "decoded"
    /\ dLen = Len(dBuf)
    /\ dStrings = << <<>>, <<66304>> >>
    /\ dBuf = <<0, 55296, 57088, 0, 0>>
    /\ dOut = Ok(dStrings)

\* C7 as stated: decoding with a length shorter than the encoded length
\* fails with a decode error and never returns a string list.
C7_TruncatedFails ==
    (dpc = "decoded" /\ dLen < Len(dBuf)) => dOut.panic

\* C7 as amended: decoding with a shorter length fails exactly when the cut
\* leaves an unpaired surrogate at the end of the slice; otherwise it returns
\* a string list, which is a prefix of the original strings and, when there
\* were any, has lost at least the last one.
C7_TruncatedAmended ==
    (dpc = "decoded" /\ dLen < Len(dBuf)) =>
        /\ dOut.panic <=> (dLen > 0 /\ IsHighSurrogate(dBuf[dLen]))
        /\ ~dOut.panic =>
            /\ IsPrefix(dOut.val, dStrings)
            /\ dStrings # <<>> => Len(dOut.val) < Len(dStrings)

C7_Witness ==
    /\ dpc = "decoded"
    /\ dLen < Len(dBuf)
    /\ ~dOut.panic
    /\ dOut.val # <<>>
    /\ Len(dStrings) = 2

\* ------------------------------------------------------------------------
\* Claims about the timestamp converter
\* ------------------------------------------------------------------------
\* C8: the conversion of a tick count is the epoch plus count x 100
\* nanoseconds: 0 gives the epoch, 10,000,000 gives one second after it, and
\* for non-negative counts a < b the conversions are in the same order; the
\* product never wraps or fails for a non-negative count.
C8_Converter ==
    (/\ tpc \in {"returned", "panicked"}
     /\ calls[Len(calls)].status = "ERROR_SUCCESS"
     /\ IsNonNegativeI64(pinfo.StartTime)
     /\ IsNonNegativeI64(pinfo.EndTime)) =>
        /\ tpc = "returned"
        /\ pinfo.StartTime = Epoch => time_range[1] = Epoch
        /\ pinfo.StartTime = OneSecondTicks => time_range[1] = OneSecondAfterEpoch
        /\ LessI64(pinfo.StartTime, pinfo.EndTime) => LessU64(time_range[1], time_range[2])

\* ------------------------------------------------------------------------
\* Claims about the catalog walk
\* ------------------------------------------------------------------------
NamesOf(xs) == {xs[i].name : i \in DOMAIN xs}
Positions(sts, st) == {o \in DOMAIN sts : sts[o] = st}

\* C1: the returned summary holds every machine the source reported, and an
\* object is in a machine's list exactly when its first-phase item
\* enumeration did not answer "no such object"; a skipped object leaves no
\* entry behind, and the objects and machines after it are still walked.
C1_CatalogWalk ==
    wpc = "returned" =>
        /\ Len(summary.machines) = Len(repMachines)
        /\ \A m \in DOMAIN repMachines :
            /\ summary.machines[m].name = repMachines[m]
            /\ Len(repItemStatus[m]) = Len(repObjects[m])
            /\ \A o \in DOMAIN repObjects[m] :
                (repObjects[m][o] \in NamesOf(summary.machines[m].objects))
                    <=> (repItemStatus[m][o] # "PDH_CSTATUS_NO_OBJECT")
            /\ Len(summary.machines[m].objects)
                 = Len(repObjects[m])
                   - Cardinality(Positions(repItemStatus[m], "PDH_CSTATUS_NO_OBJECT"))

C1_Witness ==
    /\ wpc = "returned"
    /\ Len(summary.machines) = 2
    /\ Len(repObjects[1]) = 2
    /\ repItemStatus[1][1] = "PDH_CSTATUS_NO_OBJECT"
    /\ Len(summary.machines[1].objects) = 1
    /\ Len(summary.machines[2].objects) = 1
    /\ Len(repObjects[2]) = 2

\* The positions of the objects the source reported for machine m that
\* were not answered "no such object", and the k-th of them in order.
KeptPositions(m) ==
    {o \in DOMAIN repObjects[m] : repItemStatus[m][o] # "PDH_CSTATUS_NO_OBJECT"}
KthKept(m, k) ==
    CHOOSE o \in KeptPositions(m) : Cardinality({p \in KeptPositions(m) : p <= o}) = k

\* C13: in a returned summary the machines are the reported machines in
\* the reported order, and the k-th object of a machine is the k-th reported
\* object of that machine that was not skipped, with the counter and
\* instance lists the source holds for that machine and object.
C13_AssemblyOrder ==
    wpc = "returned" =>
        /\ [m \in DOMAIN summary.machines |-> summary.machines[m].name] = repMachines
        /\ \A m \in DOMAIN repMachines :
              /\ DOMAIN summary.machines[m].objects = 1..Cardinality(KeptPositions(m))
              /\ \A k \in DOMAIN summary.machines[m].objects :
                    summary.machines[m].objects[k]
                      = [name |-> repObjects[m][KthKept(m, k)],
                         counters |-> ItemsOf(m, KthKept(m, k)).counters,
                         instances |-> ItemsOf(m, KthKept(m, k)).instances]

C13_Witness ==
    /\ wpc = "returned"
    /\ Len(summary.machines) = 2
    /\ summary.machines[1].name = <<77, 49>>
    /\ summary.machines[2].name = <<77, 50>>
    /\ Len(repObjects[1]) = 2
    /\ Len(summary.machines[1].objects) = 2
    /\ summary.machines[1].objects[1].name = <<79, 49>>
    /\ summary.machines[1].objects[2].name = <<79, 50>>
    /\ Len(repObjects[2]) = 2
    /\ repItemStatus[2][1] = "PDH_CSTATUS_NO_OBJECT"
    /\ Len(summary.machines[2].objects) = 1
    /\ summary.machines[2].objects[1].counters = << <<99, 50, 50>>, <<66304, 50>> >>

\* ------------------------------------------------------------------------
\* Claims about main
\* ------------------------------------------------------------------------
BindReturned ==
    \E i \in DOMAIN calls :
        calls[i].api = "PdhBindInputDataSourceW" /\ calls[i].status = "ERROR_SUCCESS"

\* C4: once bind_input_logfiles has returned a handle, the handle is
\* released exactly once on every exit path of the run, the fatal ones
\* included.
C4_ReleasedOnEveryExit ==
    (mpc \in {"returned", "panicked"} /\ BindReturned) =>
        (close_calls = 1 /\ hstate = "closed")

\* ------------------------------------------------------------------------
\* Claims about the counter value reader
\* ------------------------------------------------------------------------
LastCall == calls[Len(calls)]

IsFormat(c) == c.api = "PdhGetFormattedCounterValue"
IsCollect(c) == c.api = "PdhCollectQueryDataWithTime"
IsAddCounter(c) == c.api = "PdhAddCounterW"

\* The format call answered "invalid data", or succeeded with a non-zero
\* per-value status.
IsGap(c) ==
    /\ IsFormat(c)
    /\ \/ c.status = "PDH_INVALID_DATA"
       \/ c.status = "ERROR_SUCCESS" /\ c.arg.CStatus # "PDH_CSTATUS_VALID_DATA"

GapCalls(counter) == {i \in DOMAIN calls : IsGap(calls[i]) /\ calls[i].arg.counter = counter}

\* C2: when the format call for a counter reports "invalid data", or
\* succeeds with a non-zero per-value status, no sample is appended for any
\* counter, the read is not aborted, and the loop goes on with the remaining
\* counters of this timestamp or, after the last of them, with the next
\* advance.
C2_GapSkipped ==
    [][(rpc = "format" /\ IsGap(LastCall')) =>
          /\ counter_data' = counter_data
          /\ result' = result
          /\ pending' = pending \ {LastCall'.arg.counter}
          /\ rpc' = (IF pending' = {} THEN "collect" ELSE "format")]_vars

C2_Witness ==
    /\ rpc = "returned"
    /\ advances = 2
    /\ \E c \in DOMAIN result, d \in DOMAIN result :
        /\ c # d
        /\ \E i \in GapCalls(c) :
            /\ result[c] # <<>>
            /\ result[d] # <<>>
            /\ \E j \in DOMAIN calls :
                j > i /\ IsFormat(calls[j]) /\ calls[j].arg.counter = d
                /\ IsCollect(calls[j - 1])
            /\ LessU64(output[1].time, result[c][Len(result[c])].time)

\* C3: the loop ends normally, returning the series, only when the advance
\* fails with the log-exhausted status; an advance failing with any other
\* status is fatal.
C3_OnlyExhaustionEndsLoop ==
    /\ rpc = "returned" => LastCall.status = "PDH_NO_MORE_DATA"
    /\ (rpc \in {"returned", "panicked"}
        /\ IsCollect(LastCall)
        /\ LastCall.status \notin {"ERROR_SUCCESS", "PDH_NO_MORE_DATA"}) => rpc = "panicked"

SinglePath == Len(counters_to_read) = 1

\* With one requested path: a failing first advance gives the empty series,
\* not an error.
EmptyLogGivesEmptySeries ==
    (SinglePath /\ advances = 0 /\ Len(calls) > 0
     /\ IsCollect(LastCall) /\ LastCall.status # "ERROR_SUCCESS") =>
        (rpc = "returned" /\ result = Insert(<<>>, counters_to_read[1], <<>>))

\* C5 as stated: with a single valid path the returned series is as long
\* as the number of successful advances, and empty (not an error) when the
\* first advance fails.
C5_LengthIsAdvances ==
    /\ (rpc = "returned" /\ SinglePath) =>
          Len(result[counters_to_read[1]]) = advances
    /\ EmptyLogGivesEmptySeries

\* C5 as amended: the returned series is as long as the number of
\* successful advances at which the format call neither reported "invalid
\* data" nor gave a non-zero per-value status, hence at most the number of
\* successful advances; it is empty (not an error) when the first advance fails.
C5_LengthIsAdvancesLessGaps ==
    /\ (rpc = "returned" /\ SinglePath) =>
          /\ Len(result[counters_to_read[1]])
               = advances - Cardinality(GapCalls(counters_to_read[1]))
          /\ Len(result[counters_to_read[1]]) <= advances
    /\ EmptyLogGivesEmptySeries

C5_Witness ==
    /\ rpc = "returned"
    /\ SinglePath
    /\ advances = 2
    /\ Len(result[counters_to_read[1]]) = 1
    /\ Cardinality(GapCalls(counters_to_read[1])) = 1

\* C9: a failing registration aborts the read at that path: it is the last
\* native call of the run, so no later path is registered and the log is
\* never advanced, and nothing is returned, whatever was registered before.
C9_RegistrationFailureIsFatal ==
    \A i \in DOMAIN calls :
        (IsAddCounter(calls[i]) /\ calls[i].status # "ERROR_SUCCESS") =>
            /\ i = Len(calls)
            /\ rpc = "panicked"
            /\ result = NoValue
            /\ advances = 0
            /\ calls[i].arg.counter = counters_to_read[ci]
            /\ Cardinality({j \in DOMAIN calls : IsAddCounter(calls[j])}) = ci

C9_Witness ==
    /\ rpc = "panicked"
    /\ panic_msg = "Failed to add counter"
    /\ ci = 1
    /\ Len(counters_to_read) = 2
    /\ counters_to_read[1] # counters_to_read[2]
    /\ DOMAIN counter_handles = {}

\* C10: a format call failing with a status other than "invalid data"
\* aborts the read: it is the last native call of the run, so no further
\* counter is formatted and no further advance is made, and nothing is
\* returned although samples may have been collected.
C10_FormatFailureIsFatal ==
    \A i \in DOMAIN calls :
        (IsFormat(calls[i]) /\ calls[i].status \notin {"ERROR_SUCCESS", "PDH_INVALID_DATA"}) =>
            /\ i = Len(calls)
            /\ rpc = "panicked"
            /\ result = NoValue

C10_Witness ==
    /\ rpc = "panicked"
    /\ panic_msg = "Failed to get counter value"
    /\ advances = 2
    /\ Cardinality(pending) = 2
    /\ \E c \in DOMAIN counter_data : counter_data[c] # <<>>

IsEnum(c) == c.api \in {"PdhEnumMachinesHW", "PdhEnumObjectsHW", "PdhEnumObjectItemsHW"}
IsSizeCall(c) == IsEnum(c) /\ c.arg.dest = "null"
IsFillCall(c) == IsEnum(c) /\ c.arg.dest = "buffer"
SizeTolerated(c) ==
    \/ c.status = "PDH_MORE_DATA"
    \/ c.api = "PdhEnumObjectItemsHW" /\ c.status = "PDH_CSTATUS_NO_OBJECT"

\* C11: every fill call of an enumeration directly follows the size call of
\* the same enumeration, made with a null destination and answered "more
\* data", and passes buffers of exactly the lengths that size call reported;
\* a size call answered otherwise (success included, "no such object"
\* excepted for items) and a fill call not answered success is the last
\* native call of the walk, which has aborted without a summary; and no
\* enumeration is issued twice for the same phase.
C11_TwoPhaseProtocol ==
    \A i \in DOMAIN calls :
        /\ IsFillCall(calls[i]) =>
              /\ i > 1
              /\ calls[i-1].api = calls[i].api
              /\ calls[i-1].arg.for = calls[i].arg.for
              /\ calls[i-1].arg.dest = "null"
              /\ calls[i-1].status = "PDH_MORE_DATA"
              /\ calls[i].arg.len = calls[i-1].arg.reported
        /\ IsSizeCall(calls[i]) =>
              calls[i].arg.len \in {<<0>>, <<0, 0>>}
        /\ (\/ IsSizeCall(calls[i]) /\ ~SizeTolerated(calls[i])
            \/ IsFillCall(calls[i]) /\ calls[i].status # "ERROR_SUCCESS") =>
              /\ i = Len(calls)
              /\ wpc = "panicked"
              /\ summary = NoValue
        /\ IsEnum(calls[i]) =>
              \A j \in DOMAIN calls :
                  (/\ calls[j].api = calls[i].api
                   /\ calls[j].arg.for = calls[i].arg.for
                   /\ calls[j].arg.dest = calls[i].arg.dest) => j = i

C11_Witness ==
    /\ wpc = "panicked"
    /\ Len(machines) = 1
    /\ Len(calls) > 2
    /\ IsFillCall(LastCall)
    /\ LastCall.api = "PdhEnumObjectsHW"
    /\ LastCall.status = "PDH_INVALID_HANDLE"
    /\ \E i \in DOMAIN calls :
          IsSizeCall(calls[i]) /\ calls[i].status = "PDH_CSTATUS_NO_OBJECT"

\* ------------------------------------------------------------------------
\* Claims about the path derivation
\* ------------------------------------------------------------------------
\* The positions (machine, object, instance, counter) of a summary.
Tuples(s) ==
    UNION { UNION { { <<m, o, i, c>> :
                        i \in DOMAIN s.machines[m].objects[o].instances,
                        c \in DOMAIN s.machines[m].objects[o].counters } :
                    o \in DOMAIN s.machines[m].objects } :
            m \in DOMAIN s.machines }

LexLess(a, b) ==
    \E k \in 1..4 : a[k] < b[k] /\ \A j \in 1..(k - 1) : a[j] = b[j]

Rank(s, t) == 1 + Cardinality({u \in Tuples(s) : LexLess(u, t)})

RECURSIVE SumSeq(_)
SumSeq(xs) == IF xs = <<>> THEN 0 ELSE Head(xs) + SumSeq(Tail(xs))

CrossSize(s) ==
    SumSeq([m \in DOMAIN s.machines |->
        SumSeq([o \in DOMAIN s.machines[m].objects |->
            Len(s.machines[m].objects[o].instances) * Len(s.machines[m].objects[o].counters)])])

\* C12: the returned list holds, for every position (machine, object,
\* instance, counter) of the summary, at the rank of that position in
\* machine, object, instance, counter order, the path machine \ object
\* ( instance ) \ counter, and nothing else: its length is the sum over the
\* objects of instances times counters, and an object without instances has
\* no path.
C12_AllCounters ==
    gpc = "returned" =>
        /\ Len(all_counters) = Cardinality(Tuples(self))
        /\ Len(all_counters) = CrossSize(self)
        /\ \A t \in Tuples(self) :
              LET machine == self.machines[t[1]]
                  object == machine.objects[t[2]]
              IN  all_counters[Rank(self, t)] =
                      machine.name \o <<92>> \o object.name \o <<40>>
                      \o object.instances[t[3]] \o <<41>> \o <<92>>
                      \o object.counters[t[4]]
        /\ \A m \in DOMAIN self.machines : \A o \in DOMAIN self.machines[m].objects :
              self.machines[m].objects[o].instances = <<>> =>
                  \A k \in DOMAIN all_counters :
                      ~IsPrefix(self.machines[m].name \o <<92>>
                                \o self.machines[m].objects[o].name \o <<40>>,
                                all_counters[k])

C12_Witness ==
    /\ gpc = "returned"
    /\ Len(self.machines) = 2
    /\ Len(self.machines[1].objects) = 2
    /\ self.machines[1].objects[1].instances = <<>>
    /\ Len(self.machines[1].objects[2].instances) = 2
    /\ Len(self.machines[2].objects) = 1
    /\ Len(self.machines[2].objects[1].instances) = 2
    /\ Len(all_counters) = 8
    /\ all_counters[2] = <<77, 49, 92, 79, 50, 40, 105, 49, 41, 92, 99, 50>>
    /\ all_counters[3] = <<77, 49, 92, 79, 50, 40, 105, 50, 41, 92, 99, 49>>

\* ------------------------------------------------------------------------
\* Claims about the order of the reader's native calls
\* ------------------------------------------------------------------------
IsOpenQuery(c) == c.api = "PdhOpenQueryH"
Succeeded(c) == c.status = "ERROR_SUCCESS"
AddCalls == {i \in DOMAIN calls : IsAddCounter(calls[i])}

\* C14: a registration comes after a successful opening of the query and
\* before any advance; at an advance every requested path has been
\* registered successfully, one registration per requested position; a
\* format call comes in the pass that follows a successful advance, and its
\* handle is one a successful registration of that path gave out.
C14_CallOrder ==
    \A i \in DOMAIN calls :
        /\ IsAddCounter(calls[i]) =>
              /\ \E j \in 1..(i - 1) : IsOpenQuery(calls[j]) /\ Succeeded(calls[j])
              /\ \A j \in 1..(i - 1) : ~IsCollect(calls[j]) /\ ~IsFormat(calls[j])
        /\ IsCollect(calls[i]) =>
              /\ Cardinality({j \in AddCalls : j < i}) = Len(counters_to_read)
              /\ \A j \in AddCalls :
                    /\ j < i
                    /\ Succeeded(calls[j])
                    /\ calls[j].arg.counter
                         = counters_to_read[Cardinality({k \in AddCalls : k <= j})]
        /\ IsFormat(calls[i]) =>
              /\ \E j \in 1..(i - 1) :
                    /\ IsCollect(calls[j]) /\ Succeeded(calls[j])
                    /\ \A k \in (j + 1)..(i - 1) : IsFormat(calls[k])
              /\ \E j \in 1..(i - 1) :
                    /\ IsAddCounter(calls[j]) /\ Succeeded(calls[j])
                    /\ calls[j].arg.counter = calls[i].arg.counter
                    /\ calls[j].arg.handle = calls[i].arg.handle

C14_Witness ==
    /\ rpc = "returned"
    /\ Len(counters_to_read) = 2
    /\ counters_to_read[1] # counters_to_read[2]
    /\ advances = 2
    /\ Len(calls) = 10
    /\ IsOpenQuery(calls[1])
    /\ IsAddCounter(calls[2]) /\ IsAddCounter(calls[3])
    /\ IsCollect(calls[4])
    /\ IsFormat(calls[5]) /\ IsFormat(calls[6])
    /\ IsCollect(calls[10]) /\ ~Succeeded(calls[10])

\* ------------------------------------------------------------------------
\* Claims about the series of the reader
\* ------------------------------------------------------------------------
RegisteredPaths == {calls[i].arg.counter : i \in {j \in AddCalls : Succeeded(calls[j])}}
AdvanceTime(k) == get_time_from_filetime(LogTick(k), overflow_checks).val

\* The advance a sample was recorded at, by its timestamp.
AdvanceOf(sample) == CHOOSE k \in 1..advances : sample.time = AdvanceTime(k)

\* C15: throughout a read the series map has exactly the successfully
\* registered paths as its keys; every sample is a Large value stamped with
\* the converted time of one of the advances made so far, and the samples
\* of a series come from strictly increasing advances, so that a series
\* holds at most one sample per advance and samples of one advance share
\* its timestamp.
C15_SeriesInvariant ==
    rpc # "idle" =>
        /\ DOMAIN counter_data = RegisteredPaths
        /\ \A c \in DOMAIN counter_data :
              /\ Len(counter_data[c]) <= advances
              /\ \A n \in DOMAIN counter_data[c] :
                    /\ counter_data[c][n].variant = "Large"
                    /\ \E k \in 1..advances : counter_data[c][n].time = AdvanceTime(k)
                    /\ n > 1 => AdvanceOf(counter_data[c][n - 1]) < AdvanceOf(counter_data[c][n])
        /\ rpc = "returned" => result = counter_data

C15_Witness ==
    /\ rpc = "collect"
    /\ advances = 2
    /\ Cardinality(DOMAIN counter_data) = 2
    /\ \E c, d \in DOMAIN counter_data :
          /\ Len(counter_data[c]) = 1
          /\ Len(counter_data[d]) = 2
          /\ counter_data[c][1].time = AdvanceTime(2)
          /\ counter_data[d][2].time = AdvanceTime(2)
          /\ counter_data[d][1].time = AdvanceTime(1)

\* ------------------------------------------------------------------------
\* Claims about the handles
\* ------------------------------------------------------------------------
IsCloseQuery(c) == c.api = "PdhCloseQuery"
QueryOpened == \E i \in DOMAIN calls : IsOpenQuery(calls[i]) /\ Succeeded(calls[i])

\* C16: when a read that opened its query has ended, by returning or by a
\* fatal status, the query has been closed by exactly one call.
C16_QueryReleasedOnEveryExit ==
    (rpc \in {"returned", "panicked"} /\ QueryOpened) =>
        /\ phquery = "closed"
        /\ Cardinality({i \in DOMAIN calls : IsCloseQuery(calls[i])}) = 1

\* C17: get_perflog_summary (with the enumerations and get_time_range it
\* calls), get_time_range on its own and read_counter_values leave the
\* data source handle as the caller gave it: at every point of the call and
\* after it the handle is still bound, nothing has closed it and no native
\* call has closed or bound a log.
C17_BorrowersKeepHandle ==
    /\ hstate = "bound"
    /\ close_calls = 0
    /\ \A i \in DOMAIN calls : calls[i].api \notin {"PdhCloseLog", "PdhBindInputDataSourceW"}

C17_Witness ==
    /\ wpc = "returned"
    /\ Len(summary.machines) = 2
    /\ LastCall.api = "PdhGetDataSourceTimeRangeH"
    /\ hstate = "bound"
    /\ close_calls = 0

\* ------------------------------------------------------------------------
\* Claims about the diagnostics
\* ------------------------------------------------------------------------
SkippedObjectCalls ==
    {i \in DOMAIN calls : IsSizeCall(calls[i]) /\ calls[i].status = "PDH_CSTATUS_NO_OBJECT"}
SampleGapCalls == {i \in DOMAIN calls : IsGap(calls[i])}

\* C18: every object skipped by the walk and every sample skipped by the
\* collection has its line among the diagnostics printed, and the call that
\* met the gap has not ended the run.
C18_EveryGapReported ==
    /\ Len(output) = Cardinality(SkippedObjectCalls) + Cardinality(SampleGapCalls)
    /\ \A i \in SkippedObjectCalls \cup SampleGapCalls :
          i = Len(calls) => (wpc # "panicked" /\ rpc # "panicked")

\* ------------------------------------------------------------------------
\* Claims about the end of the read
\* ------------------------------------------------------------------------
CollectCalls == {i \in DOMAIN calls : IsCollect(calls[i])}

\* The format calls of the pass that follows the advance at position i of
\* the call log.
PassOf(i) ==
    {j \in DOMAIN calls :
        /\ j > i
        /\ IsFormat(calls[j])
        /\ \A k \in (i + 1)..j : IsFormat(calls[k])}

ReadEnded == rpc \in {"returned", "panicked"}

\* Every advance but the last one made so far has had its whole pass.
PassesAreWhole ==
    \A i \in CollectCalls :
        IF Succeeded(calls[i])
        THEN /\ \A j, k \in PassOf(i) :
                    calls[j].arg.counter = calls[k].arg.counter => j = k
             /\ (\E j \in CollectCalls : j > i) =>
                    {calls[j].arg.counter : j \in PassOf(i)} = DOMAIN counter_handles
        ELSE /\ i = Len(calls)
             /\ rpc = "returned"
             /\ result = counter_data

\* C19: on a log with finitely many samples a read ends: it returns the
\* series, unless a fatal status has ended it; each successful advance is
\* followed by one format call per registered counter before the next
\* advance, and the first failing advance is the last native call, after
\* which the series are returned.
C19_ReaderTerminates ==
    /\ <>ReadEnded
    /\ [](rpc = "returned" => result = counter_data)
    /\ []PassesAreWhole

C19_Witness ==
    /\ rpc = "returned"
    /\ advances = 2
    /\ Cardinality(DOMAIN counter_handles) = 2
    /\ Cardinality(PassOf(CHOOSE i \in CollectCalls : \A j \in CollectCalls : i <= j)) = 2
    /\ LastCall.status = "PDH_INVALID_HANDLE"

\* ------------------------------------------------------------------------
\* Claims about requested paths that repeat
\* ------------------------------------------------------------------------
RequestedPaths == {counters_to_read[k] : k \in DOMAIN counters_to_read}
LastAddOf(path) ==
    CHOOSE i \in AddCalls :
        /\ calls[i].arg.counter = path
        /\ \A j \in AddCalls : calls[j].arg.counter = path => j <= i

\* C20: once the registration loop is through, there has been one
\* registration per requested position, the handle kept for a path is the
\* one its last registration gave out, there is one series per distinct
\* path, every format call uses the kept handle, and the pass after an
\* advance that is over has made as many format calls as there are distinct
\* requested paths.
C20_DuplicatePaths ==
    rpc \in {"collect", "format", "returned"} =>
        /\ Cardinality(AddCalls) = Len(counters_to_read)
        /\ DOMAIN counter_handles = RequestedPaths
        /\ DOMAIN counter_data = RequestedPaths
        /\ \A path \in RequestedPaths :
              counter_handles[path] = calls[LastAddOf(path)].arg.handle
        /\ \A i \in DOMAIN calls :
              IsFormat(calls[i]) =>
                  calls[i].arg.handle = calls[LastAddOf(calls[i].arg.counter)].arg.handle
        /\ \A i \in CollectCalls :
              (Succeeded(calls[i]) /\ \E j \in CollectCalls : j > i) =>
                  Cardinality(PassOf(i)) = Cardinality(RequestedPaths)

C20_Witness ==
    /\ rpc = "returned"
    /\ Len(counters_to_read) = 2
    /\ counters_to_read[1] = counters_to_read[2]
    /\ advances = 2
    /\ counter_handles[counters_to_read[1]] = 2
    /\ Cardinality({i \in DOMAIN calls : IsFormat(calls[i])}) = 2
    /\ Len(result[counters_to_read[1]]) = 2

====
